---- MODULE Spec2Model ----
(***************************************************************************)
(* Scalar automatic differentiation of minitorch: the dispatch layer       *)
(* (ScalarFunction.apply, _backward, wrap_tuple), the operation catalogue  *)
(* of scalar_functions.py, and the backward engine that walks the graph    *)
(* the dispatch layer builds.                                              *)
(*                                                                         *)
(* Numbers.  A Python number is a record [n, d, f]: the exact rational     *)
(* n/d in lowest terms (d > 0) and f = TRUE for a float, FALSE for an int. *)
(* Float rounding is not modelled; log, exp and sigmoid are applied only   *)
(* to the arguments whose image is rational (log 1, exp 0, sigmoid 0).     *)
(***************************************************************************)
EXTENDS Integers, Sequences, FiniteSets, TLC

VARIABLES scalars, var_count, call, pc, root, seed, queue, derivs, processed,
          t_ctx, t_saved, t_out

vars == <<scalars, var_count, call, pc, root, seed, queue, derivs, processed,
          t_ctx, t_saved, t_out>>

graphVars == <<scalars, var_count, call, pc, root, seed, queue, derivs, processed>>
testVars == <<t_ctx, t_saved, t_out>>

\* ------------------------------------------------------------------ bounds
MaxId == 3

\* ----------------------------------------------------------------- numbers
Abs(x) == IF x < 0 THEN -x ELSE x

RECURSIVE GCD(_, _)
GCD(a, b) == IF b = 0 THEN a ELSE GCD(b, a % b)

Mk(n, d, f) ==
    LET s == IF d < 0 THEN -1 ELSE 1
        g == GCD(Abs(n), Abs(d))
    IN  [n |-> (s * n) \div g, d |-> (s * d) \div g, f |-> f]

Int_(k) == [n |-> k, d |-> 1, f |-> FALSE]
Flt(k) == [n |-> k, d |-> 1, f |-> TRUE]
float(x) == [n |-> x.n, d |-> x.d, f |-> TRUE]
isfloat(x) == x.f

NumEq(a, b) == a.n = b.n /\ a.d = b.d
NumLt(a, b) == a.n * b.d < b.n * a.d
NAdd(a, b) == Mk(a.n * b.d + b.n * a.d, a.d * b.d, a.f \/ b.f)
NMul(a, b) == Mk(a.n * b.n, a.d * b.d, a.f \/ b.f)
NSub(a, b) == Mk(a.n * b.d - b.n * a.d, a.d * b.d, a.f \/ b.f)
NDiv(a, b) == Mk(a.n * b.d, a.d * b.n, TRUE)

SeqNumEq(s, t) ==
    /\ Len(s) = Len(t)
    /\ \A i \in 1..Len(s) : NumEq(s[i], t[i])

\* ---------------------------------------------------------- Python values
\* What a call evaluates to: a float/int ("num", one item), a tuple of
\* numbers ("tuple"), or a raised exception ("raise", exc names it).
PyNum(x) == [kind |-> "num", items |-> <<x>>, exc |-> "none"]
PyTuple(xs) == [kind |-> "tuple", items |-> xs, exc |-> "none"]
PyRaise(e) == [kind |-> "raise", items |-> <<>>, exc |-> e]

\* ------------------------------------------------- numeric primitives
\* minitorch.operators, on the arguments whose image is rational.
mul(a, b) == NMul(a, b)
neg(a) == Mk(-a.n, a.d, a.f)
inv(a) == NDiv(Flt(1), a)
inv_back(a, d) == NMul(neg(NDiv(Flt(1), NMul(a, a))), d)
log(a) == Flt(0)
log_back(a, d) == NDiv(d, a)
exp(a) == Flt(1)
sigmoid(a) == Mk(1, 2, TRUE)
relu(a) == IF NumLt(Int_(0), a) THEN a ELSE Flt(0)
relu_back(a, d) == IF NumLt(Int_(0), a) THEN d ELSE Flt(0)
gt(a, b) == NumLt(b, a)
lt(a, b) == NumLt(a, b)
eq(a, b) == NumEq(a, b)
Bool2Float(b) == IF b THEN Flt(1) ELSE Flt(0)

\* ------------------------------------------------------------ Context
\* A Context records no_grad (gradient tracking is active iff it is FALSE)
\* and the values saved by the forward call.
Context(no_grad) == [no_grad |-> no_grad, saved_values |-> <<>>]

save_for_backward(ctx, values) ==
    IF ctx.no_grad THEN ctx ELSE [ctx EXCEPT !.saved_values = values]

\* ------------------------------------------------- operation catalogue
Fns == {"Add", "Log", "Mul", "Inv", "Neg", "Sigmoid", "ReLU", "Exp", "GT", "LT", "EQ"}
BinaryFns == {"Add", "Mul", "GT", "LT", "EQ"}
Arity(cls) == IF cls \in BinaryFns THEN 2 ELSE 1

Fwd(ctx, c) == [ctx |-> ctx, c |-> c]

Add_forward(ctx, a, b) == Fwd(ctx, NAdd(a, b))
Add_backward(ctx, d_output) == PyTuple(<<d_output, d_output>>)

Log_forward(ctx, a) == Fwd(save_for_backward(ctx, <<a>>), log(a))
Log_backward(ctx, d_output) ==
    IF Len(ctx.saved_values) # 1 THEN PyRaise("ValueError")
    ELSE PyNum(log_back(ctx.saved_values[1], d_output))

Mul_forward(ctx, a, b) == Fwd(save_for_backward(ctx, <<a, b>>), mul(a, b))
\* Mul.backward that forgets the saved operands
Mul_backward_unscaled(ctx, d_output) ==
    IF Len(ctx.saved_values) # 2 THEN PyRaise("ValueError")
    ELSE PyTuple(<<d_output, d_output>>)

Mul_backward(ctx, d_output) ==
    IF Len(ctx.saved_values) # 2 THEN PyRaise("ValueError")
    ELSE PyTuple(<<NMul(ctx.saved_values[2], d_output),
                   NMul(ctx.saved_values[1], d_output)>>)

Inv_forward(ctx, a) == Fwd(save_for_backward(ctx, <<a>>), inv(a))
Inv_backward(ctx, d_output) ==
    IF Len(ctx.saved_values) # 1 THEN PyRaise("ValueError")
    ELSE PyNum(inv_back(ctx.saved_values[1], d_output))

Neg_forward(ctx, a) == Fwd(save_for_backward(ctx, <<a>>), neg(a))
\* Neg.backward that does not unpack the saved value it never uses
Neg_backward_no_unpack(ctx, d_output) == PyNum(NMul(Flt(-1), d_output))

Neg_backward(ctx, d_output) ==
    IF Len(ctx.saved_values) # 1 THEN PyRaise("ValueError")
    ELSE PyNum(NMul(Flt(-1), d_output))

Sigmoid_forward(ctx, a) == Fwd(save_for_backward(ctx, <<a>>), sigmoid(a))
Sigmoid_backward(ctx, d_output) ==
    IF Len(ctx.saved_values) # 1 THEN PyRaise("ValueError")
    ELSE LET a == ctx.saved_values[1]
         IN  PyNum(NMul(NMul(sigmoid(a), NSub(Int_(1), sigmoid(a))), d_output))

ReLU_forward(ctx, a) == Fwd(save_for_backward(ctx, <<a>>), relu(a))
ReLU_backward(ctx, d_output) ==
    IF Len(ctx.saved_values) # 1 THEN PyRaise("ValueError")
    ELSE PyNum(relu_back(ctx.saved_values[1], d_output))

Exp_forward(ctx, a) == Fwd(save_for_backward(ctx, <<a>>), exp(a))
Exp_backward(ctx, d_output) ==
    IF Len(ctx.saved_values) # 1 THEN PyRaise("ValueError")
    ELSE PyNum(NMul(exp(ctx.saved_values[1]), d_output))

GT_forward(ctx, a, b) == Fwd(save_for_backward(ctx, <<a, b>>), Bool2Float(gt(a, b)))
\* GT.backward that passes the output derivative through
GT_backward_passthrough(ctx, d_output) == PyTuple(<<d_output, d_output>>)

GT_backward(ctx, d_output) == PyTuple(<<Flt(0), Flt(0)>>)

LT_forward(ctx, a, b) == Fwd(save_for_backward(ctx, <<a, b>>), Bool2Float(lt(a, b)))
LT_backward(ctx, d_output) == PyTuple(<<Flt(0), Flt(0)>>)

EQ_forward(ctx, a, b) == Fwd(save_for_backward(ctx, <<a, b>>), Bool2Float(eq(a, b)))
EQ_backward(ctx, d_output) == PyTuple(<<Flt(0), Flt(0)>>)

\* cls.forward(ctx, *inps), for Len(inps) = Arity(cls)
forward(cls, ctx, inps) ==
    CASE cls = "Add" -> Add_forward(ctx, inps[1], inps[2])
      [] cls = "Log" -> Log_forward(ctx, inps[1])
      [] cls = "Mul" -> Mul_forward(ctx, inps[1], inps[2])
      [] cls = "Inv" -> Inv_forward(ctx, inps[1])
      [] cls = "Neg" -> Neg_forward(ctx, inps[1])
      [] cls = "Sigmoid" -> Sigmoid_forward(ctx, inps[1])
      [] cls = "ReLU" -> ReLU_forward(ctx, inps[1])
      [] cls = "Exp" -> Exp_forward(ctx, inps[1])
      [] cls = "GT" -> GT_forward(ctx, inps[1], inps[2])
      [] cls = "LT" -> LT_forward(ctx, inps[1], inps[2])
      [] cls = "EQ" -> EQ_forward(ctx, inps[1], inps[2])

\* cls.backward(ctx, d_out)
backward(cls, ctx, d_out) ==
    CASE cls = "Add" -> Add_backward(ctx, d_out)
      [] cls = "Log" -> Log_backward(ctx, d_out)
      [] cls = "Mul" -> Mul_backward(ctx, d_out)
      [] cls = "Inv" -> Inv_backward(ctx, d_out)
      [] cls = "Neg" -> Neg_backward(ctx, d_out)
      [] cls = "Sigmoid" -> Sigmoid_backward(ctx, d_out)
      [] cls = "ReLU" -> ReLU_backward(ctx, d_out)
      [] cls = "Exp" -> Exp_backward(ctx, d_out)
      [] cls = "GT" -> GT_backward(ctx, d_out)
      [] cls = "LT" -> LT_backward(ctx, d_out)
      [] cls = "EQ" -> EQ_backward(ctx, d_out)

\* The arguments a forward call is explored on: those where the numeric
\* primitive returns (no ZeroDivisionError, no math domain error) and its
\* value is rational.
ForwardDefined(cls, inps) ==
    /\ Len(inps) = Arity(cls)
    /\ cls = "Inv" => inps[1].n # 0
    /\ cls = "Log" => NumEq(inps[1], Int_(1))
    /\ cls \in {"Exp", "Sigmoid"} => NumEq(inps[1], Int_(0))

\* wrap_tuple that returns its argument as it is
wrap_tuple_identity(x) == x

wrap_tuple(x) == IF x.kind = "tuple" THEN x ELSE PyTuple(x.items)

_backward(cls, ctx, d_out) ==
    LET r == backward(cls, ctx, d_out)
    IN  IF r.kind = "raise" THEN r ELSE wrap_tuple(r)

_forward(cls, ctx, inps) == forward(cls, ctx, inps)

\* ------------------------------------------------------ Scalar objects
\* scalars is the heap of Scalar objects in construction order; an object
\* is named by its index.  history is <<>> for a leaf, <<h>> otherwise;
\* derivative is <<>> for None, <<x>> otherwise.
ScalarHistory(last_fn, ctx, inputs) ==
    [last_fn |-> last_fn, ctx |-> ctx, inputs |-> inputs]

\* Scalar(v, back): the object built when the identifier counter reads vc.
Scalar(v, back, vc) ==
    [unique_id |-> vc + 1, data |-> float(v), history |-> back, derivative |-> <<>>]

is_leaf(x) == x.history = <<>>

\* ---------------------------------------------------------------- inputs
\* LeafVals: the numbers the caller makes leaves of; RawVals: the raw
\* numbers it passes to apply (an int: Python does not convert it).
LeafVals == {Flt(0), Flt(1), Flt(3)}
RawVals == {Int_(2)}
Seeds == {Flt(1), Flt(2)}

NodeArg(i) == [isnode |-> TRUE, idx |-> i, v |-> Flt(0)]
RawArg(v) == [isnode |-> FALSE, idx |-> 0, v |-> v]
Args == {NodeArg(i) : i \in 1..Len(scalars)} \cup {RawArg(v) : v \in RawVals}

NoCall == [fn |-> "none", vals |-> <<>>, raw_vals |-> <<>>, c |-> <<>>,
           exc |-> "none", ret |-> 0, base |-> 0]

\* ----------------------------------------------------------------- apply
\* Number of raw-number arguments among vals[1..i].
RECURSIVE RawRank(_, _)
RawRank(vals, i) ==
    IF i = 0 THEN 0
    ELSE RawRank(vals, i - 1) + (IF vals[i].isnode THEN 0 ELSE 1)

\* The order in which apply constructs its Scalars: the wrapper of each
\* raw argument inside the loop, the result last.  wrap[i] and result are
\* the construction slots (1 = first Scalar this call constructs).
ApplySlotsResultFirst(vals) ==
    [wrap |-> [i \in 1..Len(vals) |-> RawRank(vals, i) + 1], result |-> 1]

ApplySlots(vals) ==
    [wrap |-> [i \in 1..Len(vals) |-> RawRank(vals, i)],
     result |-> RawRank(vals, Len(vals)) + 1]

\* raw_vals of apply
RawValues(vals) ==
    [i \in 1..Len(vals) |->
        IF vals[i].isnode THEN scalars[vals[i].idx].data ELSE vals[i].v]

\* The heap index of the i-th entry of apply's list `scalars`.
OperandIndex(vals, i) ==
    IF vals[i].isnode THEN vals[i].idx ELSE Len(scalars) + RawRank(vals, i)

OperandsReversed(vals) ==
    [i \in 1..Len(vals) |-> OperandIndex(vals, Len(vals) + 1 - i)]

Operands(vals) == [i \in 1..Len(vals) |-> OperandIndex(vals, i)]

\* The wrappers apply constructs, in heap order.
RECURSIVE Wrapped(_, _)
Wrapped(vals, i) ==
    IF i = 0 THEN <<>>
    ELSE IF vals[i].isnode THEN Wrapped(vals, i - 1)
    ELSE Append(Wrapped(vals, i - 1),
                Scalar(vals[i].v, <<>>, var_count + ApplySlots(vals).wrap[i] - 1))

\* Context(False) of apply
ApplyNoGradTrue == TRUE

ApplyNoGrad == FALSE

\* assert isinstance(c, float)
ApplyAssertOff(c) == TRUE

ApplyAssert(c) == isfloat(c)

apply(cls, vals) ==
    LET nraw == RawRank(vals, Len(vals))
        raw_vals == RawValues(vals)
        ctx == Context(ApplyNoGrad)
        r == _forward(cls, ctx, raw_vals)
        back == ScalarHistory(cls, r.ctx, Operands(vals))
        res == Scalar(r.c, <<back>>, var_count + ApplySlots(vals).result - 1)
    IN  /\ pc = "build"
        /\ Len(vals) = Arity(cls)
        /\ var_count + nraw + 1 <= MaxId
        /\ ForwardDefined(cls, raw_vals)
        /\ IF ApplyAssert(r.c)
           THEN /\ scalars' = Append(scalars \o Wrapped(vals, Len(vals)), res)
                /\ var_count' = var_count + nraw + 1
                /\ call' = [fn |-> cls, vals |-> vals, raw_vals |-> raw_vals,
                            c |-> <<r.c>>, exc |-> "none",
                            ret |-> Len(scalars) + nraw + 1, base |-> Len(scalars)]
           ELSE /\ scalars' = scalars
                /\ var_count' = var_count + nraw
                /\ call' = [fn |-> cls, vals |-> vals, raw_vals |-> raw_vals,
                            c |-> <<r.c>>, exc |-> "AssertionError",
                            ret |-> 0, base |-> Len(scalars)]
        /\ UNCHANGED <<pc, root, seed, queue, derivs, processed>>

\* A leaf built by the caller: Scalar(v)
NewLeaf(v) ==
    /\ pc = "build"
    /\ var_count + 1 <= MaxId
    /\ scalars' = Append(scalars, Scalar(v, <<>>, var_count))
    /\ var_count' = var_count + 1
    /\ call' = NoCall
    /\ UNCHANGED <<pc, root, seed, queue, derivs, processed>>

\* ------------------------------------------------------ backward engine
parents(i) == IF is_leaf(scalars[i]) THEN {}
              ELSE {scalars[i].history[1].inputs[k] :
                        k \in 1..Len(scalars[i].history[1].inputs)}

RECURSIVE Discover(_)
Discover(S) ==
    LET T == S \cup UNION {parents(i) : i \in S}
    IN  IF T = S THEN S ELSE Discover(T)

\* The discovered objects by identifier, descending.
RECURSIVE SortDescending(_)
SortDescending(S) ==
    IF S = {} THEN <<>>
    ELSE LET m == CHOOSE i \in S :
                    \A j \in S : scalars[j].unique_id <= scalars[i].unique_id
         IN  <<m>> \o SortDescending(S \ {m})

\* buf with x added into the entry of key k (created if absent)
AddInto(buf, k, x) ==
    [j \in DOMAIN buf \cup {k} |->
        IF j = k THEN (IF k \in DOMAIN buf THEN NAdd(buf[k], x) ELSE x)
        ELSE buf[j]]

Remove(buf, k) == [j \in DOMAIN buf \ {k} |-> buf[j]]

\* the (parent, local derivative) pairs of h from position i on, added in
RECURSIVE Contribute(_, _, _, _)
Contribute(buf, h, ds, i) ==
    IF i > Len(h.inputs) \/ i > Len(ds) THEN buf
    ELSE Contribute(AddInto(buf, scalars[h.inputs[i]].unique_id, ds[i]), h, ds, i + 1)

\* accumulate_derivative that also overwrites the payload
accumulate_derivative_clobber(x, d) ==
    [x EXCEPT !.data = d,
              !.derivative = IF x.derivative = <<>> THEN <<NAdd(Flt(0), d)>>
                             ELSE <<NAdd(x.derivative[1], d)>>]

accumulate_derivative(x, d) ==
    [x EXCEPT !.derivative =
        IF x.derivative = <<>> THEN <<NAdd(Flt(0), d)>>
        ELSE <<NAdd(x.derivative[1], d)>>]

\* backward(r, s) is explored from the Scalar constructed last: the objects
\* constructed after a root are never discovered from it.
BackwardStart(r, s) ==
    /\ pc = "build"
    /\ r = Len(scalars)
    /\ r >= 1
    /\ root' = r
    /\ seed' = s
    /\ queue' = SortDescending(Discover({r}))
    /\ derivs' = [k \in {scalars[r].unique_id} |-> s]
    /\ processed' = {}
    /\ pc' = "prop"
    /\ call' = NoCall
    /\ UNCHANGED <<scalars, var_count>>

PropStep ==
    /\ pc = "prop"
    /\ queue # <<>>
    /\ LET n == Head(queue)
           x == scalars[n]
           id == x.unique_id
       IN  /\ queue' = Tail(queue)
           /\ processed' = processed \cup {n}
           /\ IF id \notin DOMAIN derivs
              THEN /\ UNCHANGED <<scalars, derivs>>
                   /\ pc' = IF Tail(queue) = <<>> THEN "done" ELSE "prop"
              ELSE IF is_leaf(x)
              THEN /\ scalars' = [scalars EXCEPT ![n] = accumulate_derivative(x, derivs[id])]
                   /\ derivs' = Remove(derivs, id)
                   /\ pc' = IF Tail(queue) = <<>> THEN "done" ELSE "prop"
              ELSE LET h == x.history[1]
                       ds == _backward(h.last_fn, h.ctx, derivs[id])
                   IN  IF ds.kind = "raise"
                       THEN /\ pc' = "raised"
                            /\ derivs' = Remove(derivs, id)
                            /\ UNCHANGED scalars
                       ELSE /\ derivs' = Contribute(Remove(derivs, id), h, ds.items, 1)
                            /\ pc' = IF Tail(queue) = <<>> THEN "done" ELSE "prop"
                            /\ UNCHANGED scalars
    /\ UNCHANGED <<var_count, call, root, seed>>

\* ------------------------------------------- direct calls on a Context
\* forward and backward called on a Context directly, as a test does.
TVals == {Flt(0), Flt(1), Flt(2)}
NoOut == [fn |-> "none", what |-> "none", res |-> PyRaise("none")]

TNewContext(no_grad) ==
    /\ t_ctx' = <<Context(no_grad)>>
    /\ t_saved' = FALSE
    /\ t_out' = NoOut

TForward(cls, inps) ==
    /\ t_ctx # <<>>
    /\ ForwardDefined(cls, inps)
    /\ LET r == _forward(cls, t_ctx[1], inps)
       IN  /\ t_ctx' = <<r.ctx>>
           /\ t_out' = [fn |-> cls, what |-> "forward", res |-> PyNum(r.c)]
    /\ t_saved' = (t_saved \/ cls # "Add")

TBackward(cls, d) ==
    /\ t_ctx # <<>>
    /\ t_out' = [fn |-> cls, what |-> "backward", res |-> backward(cls, t_ctx[1], d)]
    /\ UNCHANGED <<t_ctx, t_saved>>

\* ------------------------------------------------------- specifications
Init ==
    /\ scalars = <<>>
    /\ var_count = 0
    /\ call = NoCall
    /\ pc = "build"
    /\ root = 0
    /\ seed = Flt(0)
    /\ queue = <<>>
    /\ derivs = <<>>
    /\ processed = {}
    /\ t_ctx = <<>>
    /\ t_saved = FALSE
    /\ t_out = NoOut

Next ==
    \/ \E v \in LeafVals : NewLeaf(v) /\ UNCHANGED testVars
    \/ /\ pc = "build" /\ var_count < MaxId
       /\ \E cls \in Fns : \E vals \in [1..Arity(cls) -> Args] :
             apply(cls, vals) /\ UNCHANGED testVars
    \/ \E r \in {Len(scalars)} : \E s \in Seeds :
            BackwardStart(r, s) /\ UNCHANGED testVars
    \/ PropStep /\ UNCHANGED testVars

Spec == Init /\ [][Next]_vars

NextCall ==
    \/ \E g \in BOOLEAN : TNewContext(g) /\ UNCHANGED graphVars
    \/ \E cls \in Fns : \E inps \in [1..Arity(cls) -> TVals] :
            TForward(cls, inps) /\ UNCHANGED graphVars
    \/ \E cls \in Fns : \E d \in Seeds : TBackward(cls, d) /\ UNCHANGED graphVars

SpecCall == Init /\ [][NextCall]_vars

\* ============================================================== claims
Computed == {i \in 1..Len(scalars) : ~is_leaf(scalars[i])}
Leaves == {i \in 1..Len(scalars) : is_leaf(scalars[i])}
Comparisons == {"GT", "LT", "EQ"}
hist(i) == scalars[i].history[1]

\* Sum of a sequence of numbers from position i on.
RECURSIVE SumFrom(_, _)
SumFrom(xs, i) == IF i > Len(xs) THEN Flt(0) ELSE NAdd(xs[i], SumFrom(xs, i + 1))

\* The local backward derivative of computed node n towards its k-th operand.
Local(n, k) == _backward(hist(n).last_fn, hist(n).ctx, Flt(1)).items[k]

\* Sum over every path from n to l of the product of the local derivatives.
RECURSIVE PathSum(_, _)
PathSum(n, l) ==
    IF n = l THEN Flt(1)
    ELSE IF is_leaf(scalars[n]) THEN Flt(0)
    ELSE SumFrom([k \in 1..Len(hist(n).inputs) |->
                    NMul(Local(n, k), PathSum(hist(n).inputs[k], l))], 1)

\* C1: after backward from a root with seed s, every leaf reachable from the
\* root holds s times the sum over all root-to-leaf paths of the product of
\* the local backward derivatives; and for a leaf x, y = Mul.apply(x, x) and
\* seed 1 the leaf holds 2 * x (6 for x = 3).
C1_ChainRule ==
    pc = "done" =>
        /\ \A l \in Leaves \cap Discover({root}) :
              /\ scalars[l].derivative # <<>>
              /\ NumEq(scalars[l].derivative[1], NMul(seed, PathSum(root, l)))
        /\ \A x \in Leaves :
              (/\ ~is_leaf(scalars[root])
               /\ hist(root).last_fn = "Mul"
               /\ hist(root).inputs = <<x, x>>
               /\ NumEq(seed, Int_(1)))
              => /\ scalars[x].derivative # <<>>
                 /\ NumEq(scalars[x].derivative[1], NMul(Int_(2), scalars[x].data))

\* x = 3, y = Mul.apply(x, x), backward(y, 1) has run: x holds 6.
C1_Witness ==
    /\ pc = "done"
    /\ root \in Computed
    /\ hist(root).last_fn = "Mul"
    /\ NumEq(seed, Int_(1))
    /\ \E x \in Leaves :
          /\ hist(root).inputs = <<x, x>>
          /\ NumEq(scalars[x].data, Int_(3))
          /\ scalars[x].derivative # <<>>
          /\ NumEq(scalars[x].derivative[1], Int_(6))

\* Number of edges into l from the computed nodes reachable from the root.
EdgesInto(l) ==
    Cardinality({e \in Discover({root}) \X (1..2) :
                    /\ e[1] \in Computed
                    /\ e[2] <= Len(hist(e[1]).inputs)
                    /\ hist(e[1]).inputs[e[2]] = l})

\* C2: during propagation, when a node has been taken from the gradient buffer
\* every reachable computed node that has it as a parent was processed before,
\* and a processed node never gets a buffer entry again.
C2_ReverseOrder ==
    pc # "build" =>
        /\ \A c \in Discover({root}) \ processed : parents(c) \cap processed = {}
        /\ \A n \in processed : scalars[n].unique_id \notin DOMAIN derivs

\* Three edges from two different consumers converge on one node, which has
\* been processed.
C2_Witness ==
    /\ pc = "done"
    /\ \E l \in processed :
          /\ EdgesInto(l) >= 3
          /\ Cardinality({c \in Discover({root}) : l \in parents(c)}) >= 2

\* C3: every identifier is unique and greater than the identifiers of the
\* node's parents, wrapped raw arguments included.
C3_IdOrder ==
    /\ \A i, j \in 1..Len(scalars) :
          i # j => scalars[i].unique_id # scalars[j].unique_id
    /\ \A i \in 1..Len(scalars) :
          scalars[i].history # <<>> =>
              \A k \in 1..Len(scalars[i].history[1].inputs) :
                  scalars[i].unique_id > scalars[scalars[i].history[1].inputs[k]].unique_id

\* apply was called with a raw number and an existing node, and returned.
C3_Witness ==
    /\ call.fn \in Fns
    /\ call.exc = "none"
    /\ \E i, j \in 1..Len(call.vals) : call.vals[i].isnode /\ ~call.vals[j].isnode

\* C4: for every node built by apply, _backward on its operation and Context
\* returns a tuple with one entry per operand: 2 for Add, Mul, GT, LT, EQ and
\* 1 for Log, Inv, Neg, Sigmoid, ReLU, Exp.
C4_BackwardArity ==
    \A i \in 1..Len(scalars) :
        scalars[i].history # <<>> =>
            LET h == scalars[i].history[1]
            IN  \A d \in Seeds :
                    LET r == _backward(h.last_fn, h.ctx, d)
                    IN  /\ r.kind = "tuple"
                        /\ Len(r.items) = Len(h.inputs)
                        /\ Len(r.items) =
                             (IF h.last_fn \in {"Add", "Mul", "GT", "LT", "EQ"} THEN 2 ELSE 1)

\* A unary and a binary operation have both been applied.
C4_Witness ==
    /\ \E i \in Computed : hist(i).last_fn \in {"Log", "Inv", "Neg", "Sigmoid", "ReLU", "Exp"}
    /\ \E i \in Computed : hist(i).last_fn \in {"Add", "Mul", "GT", "LT", "EQ"}

\* The nodes reachable from S without passing through a comparison node.
RECURSIVE DiscoverNoCmp(_)
DiscoverNoCmp(S) ==
    LET T == S \cup UNION {parents(i) :
                  i \in {j \in S \cap Computed : hist(j).last_fn \notin Comparisons}}
    IN  IF T = S THEN S ELSE DiscoverNoCmp(T)

\* The leaves whose every path from the root passes through a comparison.
Masked == (Leaves \cap Discover({root})) \ DiscoverNoCmp({root})

\* C5: the backward of GT, LT and EQ is (0.0, 0.0) whatever the inputs and the
\* output derivative, and after backward a leaf whose every path to the root
\* passes through a comparison node holds a gradient of zero.
C5_ComparisonZero ==
    /\ \A i \in 1..Len(scalars) :
          (scalars[i].history # <<>> /\ scalars[i].history[1].last_fn \in Comparisons) =>
              \A d \in Seeds :
                  LET r == backward(scalars[i].history[1].last_fn, scalars[i].history[1].ctx, d)
                  IN  /\ r.kind = "tuple"
                      /\ SeqNumEq(r.items, <<Flt(0), Flt(0)>>)
    /\ pc = "done" =>
          \A l \in Masked :
              /\ scalars[l].derivative # <<>>
              /\ NumEq(scalars[l].derivative[1], Int_(0))

\* Backward ran from a root that is not itself a comparison and reached a
\* leaf only through one.
C5_Witness ==
    /\ pc = "done"
    /\ root \in Computed
    /\ hist(root).last_fn \notin Comparisons
    /\ Masked # {}

\* C6: apply returns a new computed node whose History records the operation
\* and one parent per argument in call order: an existing node as itself, a
\* raw number as a fresh leaf holding that number; the i-th raw value passed
\* to forward equals the payload of the i-th parent.
C6_ApplyHistory ==
    [][(call'.fn \in Fns /\ call'.exc = "none") =>
          LET y == call'.ret
              h == scalars'[y].history[1]
              vals == call'.vals
          IN  /\ y = Len(scalars')
              /\ y > Len(scalars)
              /\ scalars'[y].history # <<>>
              /\ h.last_fn = call'.fn
              /\ h.ctx = _forward(call'.fn, Context(FALSE), call'.raw_vals).ctx
              /\ NumEq(scalars'[y].data, call'.c[1])
              /\ Len(h.inputs) = Len(vals)
              /\ \A i \in 1..Len(scalars) : scalars'[i] = scalars[i]
              /\ \A i \in 1..Len(vals) :
                    /\ vals[i].isnode => h.inputs[i] = vals[i].idx
                    /\ ~vals[i].isnode =>
                          /\ h.inputs[i] > Len(scalars)
                          /\ h.inputs[i] < y
                          /\ scalars'[h.inputs[i]].history = <<>>
                          /\ NumEq(scalars'[h.inputs[i]].data, vals[i].v)
                          /\ \A j \in 1..Len(vals) : j # i => h.inputs[j] # h.inputs[i]
                    /\ NumEq(call'.raw_vals[i], scalars'[h.inputs[i]].data)
    ]_vars

\* apply returned a node built from an existing node and a raw number with
\* different payloads.
C6_Witness ==
    /\ call.fn \in BinaryFns
    /\ call.exc = "none"
    /\ call.vals[1].isnode
    /\ ~call.vals[2].isnode
    /\ ~NumEq(call.raw_vals[1], call.raw_vals[2])

ComputedCount == Cardinality(Computed)

\* C7: when forward returns something that is not a float, apply raises at the
\* assertion: it returns no node and no History is created.
C7_ForwardMustBeFloat ==
    [][(call'.fn \in Fns /\ ~isfloat(call'.c[1])) =>
          /\ call'.exc = "AssertionError"
          /\ call'.ret = 0
          /\ ComputedCount' = ComputedCount
    ]_vars

\* forward returned an int (Add of two raw ints) and apply raised.
C7_Witness ==
    /\ call.fn = "Add"
    /\ call.exc = "AssertionError"
    /\ ~isfloat(call.c[1])

SavingFns == {"Log", "Mul", "Inv", "Neg", "Sigmoid", "ReLU", "Exp"}

\* C8: a Context on which save was never called has no saved values, and the
\* backward of Log, Mul, Inv, Neg, Sigmoid, ReLU and Exp called with it raises
\* instead of returning a derivative.
C8_MissingSavedData ==
    (t_ctx # <<>> /\ ~t_saved) =>
        /\ t_ctx[1].saved_values = <<>>
        /\ (t_out.what = "backward" /\ t_out.fn \in SavingFns) => t_out.res.kind = "raise"

\* Neg.backward was called with a Context nothing was saved on.
C8_Witness ==
    /\ t_ctx # <<>>
    /\ ~t_saved
    /\ t_out.what = "backward"
    /\ t_out.fn = "Neg"
    /\ t_out.res.kind = "raise"

C10_BackwardFrame ==
    [][pc' # "build" =>
          /\ Len(scalars') = Len(scalars)
          /\ \A i \in 1..Len(scalars) :
                /\ scalars'[i].unique_id = scalars[i].unique_id
                /\ scalars'[i].data = scalars[i].data
                /\ scalars'[i].history = scalars[i].history
                /\ (~is_leaf(scalars[i]) \/ i \notin Discover({root'}))
                      => scalars'[i].derivative = scalars[i].derivative
    ]_vars

\* Backward is over: a reachable leaf has its gradient, an unreachable leaf
\* and the computed root have none.
C10_Witness ==
    /\ pc = "done"
    /\ root \in Computed
    /\ scalars[root].derivative = <<>>
    /\ \E l \in Leaves \cap Discover({root}) : scalars[l].derivative # <<>>
    /\ \E l \in Leaves \ Discover({root}) : scalars[l].derivative = <<>>

====
